---- MODULE Spec2Model ----
(***************************************************************************)
(* A model of bvzcomparedirs: the scanner (ScanFiles), the query scan      *)
(* (QueryFiles) and the session orchestrator (Session.do_compare).         *)
(*                                                                         *)
(* A path is a sequence of path components: <<"r","s","a.x">> is /r/s/a.x. *)
(* The filesystem is the function fs from the paths of a small tree to     *)
(* their inode data, together with the set exists of the paths that are    *)
(* on disk right now (a file can vanish while the session runs).           *)
(***************************************************************************)
EXTENDS Integers, Sequences, FiniteSets, TLC

VARIABLES
    fs,              \* path -> inode data (kind, content, times), fixed after Init
    exists,          \* the paths currently on disk
    vanished,        \* how many paths have vanished so far
    query_scan,      \* Session.query_scan: the QueryFiles object
    canonical_scan,  \* Session.canonical_scan: the CanonicalFiles object
    options,         \* the Options object shared by both scanners
    dqs,             \* the frame of the do_query_scan generator
    dcs,             \* the frame of the do_canonical_scan generator
    session,         \* the Session object's result fields
    dc,              \* the frame of the do_compare generator
    hist             \* history: comparator calls and yielded values

vars == <<fs, exists, vanished, query_scan, canonical_scan, options, dqs, dcs,
          session, dc, hist>>

\* the scanners' control state, which do_compare does not touch
scanCtl == <<options, dqs, dcs>>

-----------------------------------------------------------------------------
(* Bounds                                                                  *)

\* the longest query ScanResult drawn for a comparison
MaxQuery == 2
\* how many paths may vanish from disk during one run
MaxVanish == 1
\* file contents are 1..NumContents
NumContents == 3
\* the most attribute flags passed as True in one do_compare call
MaxFlags == 1

-----------------------------------------------------------------------------
(* The filesystem fixture                                                  *)

RootDir == <<"r">>
SubDir == <<"r", "s">>
FileA == <<"r", "a.x">>
FileSA == <<"r", "s", "a.x">>
FileSB == <<"r", "s", "b">>

Hidden == <<"r", ".h">>
Link == <<"r", "l">>
SubSubDir == <<"r", "s", "t">>
FileTC == <<"r", "s", "t", "c.x">>
Missing == <<"r", "m">>

Dirs == {RootDir, SubDir}
Files == {FileA, FileSA, FileSB}

\* the whole tree: /r holds a.x, s/, the empty hidden file .h and the symlink
\* l; /r/s holds a.x, t/ and b; /r/s/t holds c.x; /r/m is not on disk
TreePaths == {RootDir, SubDir, SubSubDir, FileA, FileSA, FileSB, FileTC, Hidden, Link}

KindOf(p) ==
    IF p \in {RootDir, SubDir, SubSubDir} THEN "dir"
    ELSE IF p = Link THEN "link" ELSE "file"

\* the entries of a directory in the order its listing returns them
Children(d) ==
    CASE d = RootDir -> <<FileA, SubDir, Hidden, Link>>
      [] d = SubDir -> <<FileSA, SubSubDir, FileSB>>
      [] d = SubSubDir -> <<FileTC>>
      [] OTHER -> <<>>

\* the order in which a directory listing returns the files
ListingOrder == <<FileA, FileSA, FileSB>>

Contents == 1..NumContents

\* stat.S_IRUSR, stat.S_IRGRP, stat.S_IROTH: the read bits of st_mode
S_IRUSR == 256
S_IRGRP == 32
S_IROTH == 4

\* the inode of the fixture's path p: times by path, mode rw-r--r--, owner 0:0
FixCTime(p) == IF p = FileA THEN 1 ELSE 2
FixMTime(p) == IF p = FileSB THEN 2 ELSE 1
Inode(p, kind, content) ==
    [ kind |-> kind, content |-> content,
      ctime |-> FixCTime(p), mtime |-> FixMTime(p),
      st_mode |-> S_IRUSR + 128 + S_IRGRP + S_IROTH,
      file_uid |-> 0, file_gid |-> 0, listable |-> TRUE, reversed |-> FALSE ]

\* the length in bytes of a file with content c: contents 1 and 2 are two
\* different byte strings of the same length, content 3 is longer
ByteLen(c) == (c + 1) \div 2

\* the digest of content c (md5 in comparefiles): no two contents collide
Digest(c) == 100 + c

IsPrefix(s, t) == Len(s) <= Len(t) /\ SubSeq(t, 1, Len(s)) = s

Under(root) == SelectSeq(ListingOrder, LAMBDA p : IsPrefix(root, p))

-----------------------------------------------------------------------------
(* os.path helpers                                                         *)

Last(p) == p[Len(p)]

\* os.path.splitext(name)[1] on the names of the fixture
SplitExt(n) ==
    CASE n \in {"a.x", "c.x"} -> ".x"
      [] n \in {"b", ".h", "l"} -> ""
      [] OTHER -> ""

RECURSIVE CommonLen(_, _)
CommonLen(p, q) ==
    IF p = <<>> \/ q = <<>> \/ Head(p) # Head(q) THEN 0
    ELSE 1 + CommonLen(Tail(p), Tail(q))

\* os.path.relpath(file_p, root_p): one ".." per component of root_p that is
\* not shared, then the rest of file_p; "." when nothing is left
RelPath(file_p, root_p) ==
    LET k == CommonLen(file_p, root_p)
        ups == [n \in 1..(Len(root_p) - k) |-> ".."]
        rest == SubSeq(file_p, k + 1, Len(file_p))
    IN  IF ups \o rest = <<>> THEN <<".">> ELSE ups \o rest

\* ScanFiles._get_metadata: the attributes of file_p under the root root_p
GetMetadata(file_p, root_p) ==
    [ name |-> Last(file_p),
      file_type |-> SplitExt(Last(file_p)),
      parent |-> IF Len(file_p) >= 2 THEN file_p[Len(file_p) - 1] ELSE "",
      rel_path |-> RelPath(file_p, root_p),
      size |-> ByteLen(fs[file_p].content),
      ctime |-> fs[file_p].ctime,
      mtime |-> fs[file_p].mtime,
      isdir |-> fs[file_p].kind = "dir",
      islink |-> fs[file_p].kind = "link",
      st_mode |-> fs[file_p].st_mode,
      file_uid |-> fs[file_p].file_uid,
      file_gid |-> fs[file_p].file_gid ]

-----------------------------------------------------------------------------
(* ScanResult: a dict from path to metadata, kept in insertion order       *)

Paths(files) == {files[k].path : k \in 1..Len(files)}

\* QueryFiles._append_to_scan: self.files[file_path] = metadata
AppendToScan(files, file_path, metadata) ==
    IF file_path \in Paths(files)
    THEN [k \in 1..Len(files) |->
            IF files[k].path = file_path
            THEN [path |-> file_path, metadata |-> metadata]
            ELSE files[k]]
    ELSE Append(files, [path |-> file_path, metadata |-> metadata])

-----------------------------------------------------------------------------
(* ScanFiles: the scanner                                                  *)

\* ScanFiles.__init__ (and QueryFiles.__init__ for files)
ScanInit ==
    [ files |-> <<>>, checksum |-> <<>>,
      dir_permission_err_files |-> {}, dir_generic_err_files |-> {},
      file_permission_err_files |-> {}, file_generic_err_files |-> {},
      file_not_found_err_files |-> {},
      initial_count |-> 0, checked_count |-> 0, skipped_links |-> 0,
      error_count |-> 0, skipped_zero_len |-> 0, skipped_hidden |-> 0,
      skipped_exclude_dirs |-> 0, skipped_include_dirs |-> 0,
      skipped_exclude_files |-> 0, skipped_include_files |-> 0 ]

\* a regex list that was not given (None)
NoRegexes == <<"None">>

\* the options of Session.__init__'s defaults, reporting every file
DefaultOptions ==
    [ skip_sub_dir |-> FALSE, skip_hidden |-> FALSE, skip_zero_len |-> TRUE,
      incl_dir_regexes |-> NoRegexes, excl_dir_regexes |-> NoRegexes,
      incl_file_regexes |-> NoRegexes, excl_file_regexes |-> NoRegexes,
      report_frequency |-> 1 ]

\* os.path.split(file_p)[0]
Front(p) == SubSeq(p, 1, Len(p) - 1)

\* ScanFiles._is_hidden: the name starts with a dot
IsHidden(file_p) == Last(file_p) = ".h"

\* re.search(regex, item) for the literal regexes of the fixture: the literal
\* occurs somewhere in the path (or name) item
Search(regex, item) ==
    \E k \in 1..Len(item) :
        \/ item[k] = regex
        \/ regex = "a" /\ item[k] = "a.x"
        \/ regex = "x" /\ item[k] \in {"a.x", "c.x"}

\* ScanFiles._match_regex
MatchRegex(regexes, items) ==
    \E r \in 1..Len(regexes) : \E item \in items : Search(regexes[r], item)

\* bool(bit & st_mode)
HasBit(bit, st_mode) == (st_mode \div bit) % 2 = 1

\* the test that grants read access if any of the three read bits is set
HasReadPermissions_any(st_mode, file_uid, file_gid, uid, gid) ==
    HasBit(S_IRUSR, st_mode) \/ HasBit(S_IRGRP, st_mode) \/ HasBit(S_IROTH, st_mode)

\* ScanFiles._has_read_permissions
HasReadPermissions(st_mode, file_uid, file_gid, uid, gid) ==
    IF file_uid = uid THEN HasBit(S_IRUSR, st_mode)
    ELSE IF file_gid = gid THEN HasBit(S_IRGRP, st_mode)
    ELSE HasBit(S_IROTH, st_mode)

Bump(sc, counter) == [sc EXCEPT ![counter] = @ + 1]

\* the handler that counts the error and forgets the path
OnFileNotFound_pathless(sc, file_p) == Bump(sc, "error_count")

\* scan_file, lines 414-417: os.stat raised FileNotFoundError
OnFileNotFound(sc, file_p) ==
    [Bump(sc, "error_count") EXCEPT !.file_not_found_err_files = @ \cup {file_p}]

\* the zero-length test left out
SkipsZeroLen_never(attrs) == FALSE

\* scan_file, lines 438-439: skip_zero_len is set and the file is empty
SkipsZeroLen(attrs) == options.skip_zero_len /\ attrs.size = 0

\* ScanFiles.scan_file, lines 383-446: the scanner after file_p was scanned
ScanFile(sc0, file_p, root_p, uid, gid) ==
    LET sc == Bump(sc0, "checked_count")
        file_d == Front(file_p)
        file_n == <<Last(file_p)>>
    IN  IF options.skip_hidden /\ IsHidden(file_p)
        THEN Bump(sc, "skipped_hidden")
        ELSE IF /\ options.incl_dir_regexes # NoRegexes
                /\ options.incl_dir_regexes # <<>>
                /\ ~MatchRegex(options.incl_dir_regexes, {file_d})
        THEN Bump(sc, "skipped_include_files")
        ELSE IF /\ options.excl_dir_regexes # NoRegexes
                /\ MatchRegex(options.excl_dir_regexes, {file_d})
        THEN Bump(sc, "skipped_include_files")
        ELSE IF /\ options.incl_file_regexes # NoRegexes
                /\ ~MatchRegex(options.incl_file_regexes, {file_n})
        THEN Bump(sc, "skipped_include_files")
        ELSE IF /\ options.excl_file_regexes # NoRegexes
                /\ MatchRegex(options.excl_file_regexes, {file_n})
        THEN Bump(sc, "skipped_exclude_files")
        ELSE IF file_p \notin exists
        THEN OnFileNotFound(sc, file_p)
        ELSE LET attrs == GetMetadata(file_p, root_p)
             IN  IF attrs.islink
                 THEN Bump(sc, "skipped_links")
                 ELSE IF ~HasReadPermissions(attrs.st_mode, attrs.file_uid,
                                             attrs.file_gid, uid, gid)
                 THEN [Bump(sc, "error_count") EXCEPT
                          !.file_permission_err_files = @ \cup {file_p}]
                 ELSE IF SkipsZeroLen(attrs)
                 THEN Bump(sc, "skipped_zero_len")
                 ELSE [Bump(sc, "initial_count") EXCEPT
                          !.files = AppendToScan(@, file_p, attrs)]

-----------------------------------------------------------------------------
(* The scan generators: scan_directories, scan_directory, scan_files       *)

\* a scan generator that was not called yet: the items it is to scan
\* (Session.query_items, or Session.canonical_dir alone), the directories and
\* files still to scan, the stack of scan_directory frames (one per nested
\* call), the values yielded so far, the directories that denied listing
GenInit ==
    [ pc |-> "init", items |-> <<>>,
      scan_dirs |-> <<>>, files_p |-> <<>>, stack |-> <<>>,
      root_p |-> <<>>, files_root |-> <<>>, uid |-> 0, gid |-> 0,
      yields |-> <<>>, denied |-> {} ]

Reverse(q) == [k \in 1..Len(q) |-> q[Len(q) + 1 - k]]

\* os.scandir(scan_dir): the entries on disk with their kind, in the order
\* the directory returns them
Entries(scan_dir) ==
    LET kids == SelectSeq(Children(scan_dir), LAMBDA p : p \in exists)
        ordered == IF fs[scan_dir].reversed THEN Reverse(kids) ELSE kids
    IN  [k \in 1..Len(ordered) |->
            [path |-> ordered[k], is_dir |-> fs[ordered[k]].kind = "dir"]]

\* scan_directory, lines 291-300: the checks at entry and the listing. An
\* IOError of a check and the PermissionError of os.scandir leave the
\* generator, and every generator that delegates to it, with that error.
EnterDirectory(sc, g, scan_dir) ==
    IF scan_dir = <<>> \/ scan_dir \notin exists \/ fs[scan_dir].kind # "dir"
    THEN [sc |-> sc, g |-> [g EXCEPT !.pc = "IOError"]]
    ELSE IF ~fs[scan_dir].listable
    THEN [sc |-> sc,
          g |-> [g EXCEPT !.pc = "PermissionError", !.denied = @ \cup {scan_dir}]]
    ELSE [sc |-> sc,
          g |-> [g EXCEPT !.stack = Append(@,
                    [scan_dir |-> scan_dir, entries |-> Entries(scan_dir)])]]

\* yield self.checked_count
Yield(g, value) == [g EXCEPT !.yields = Append(@, value)]

\* the test that takes every directory for one to descend into
Descends_always(entry) == entry.is_dir

\* scan_directory, line 303: if entry.is_dir() and not self.options.skip_sub_dir
Descends(entry) == entry.is_dir /\ ~options.skip_sub_dir

\* the loop body without the directory filters: every sub-directory is entered
DirectoryEntryStep_unfiltered(sc, g) ==
    LET top == Len(g.stack)
        entry == Head(g.stack[top].entries)
        g1 == [g EXCEPT !.stack[top].entries = Tail(@)]
    IN  IF entry.is_dir /\ ~options.skip_sub_dir
        THEN EnterDirectory(sc, g1, entry.path)
        ELSE LET sc1 == ScanFile(sc, entry.path, g.root_p, g.uid, g.gid)
             IN  [sc |-> sc1,
                  g |-> IF sc1.checked_count % options.report_frequency = 0
                        THEN Yield(g1, sc1.checked_count) ELSE g1]

\* scan_directory, lines 300-321: the loop body for the next entry of the
\* innermost directory being listed
DirectoryEntryStep(sc, g) ==
    LET top == Len(g.stack)
        entry == Head(g.stack[top].entries)
        g1 == [g EXCEPT !.stack[top].entries = Tail(@)]
    IN  IF Descends(entry)
        THEN IF /\ options.incl_dir_regexes # NoRegexes
                /\ options.incl_dir_regexes # <<>>
                /\ ~MatchRegex(options.incl_dir_regexes, {entry.path})
             THEN [sc |-> Bump(sc, "skipped_include_dirs"),
                   g |-> Yield(g1, sc.checked_count)]
             ELSE IF /\ options.excl_dir_regexes # NoRegexes
                     /\ MatchRegex(options.excl_dir_regexes, {entry.path})
             THEN [sc |-> Bump(sc, "skipped_exclude_dirs"),
                   g |-> Yield(g1, sc.checked_count)]
             ELSE EnterDirectory(sc, g1, entry.path)
        ELSE LET sc1 == ScanFile(sc, entry.path, g.root_p, g.uid, g.gid)
             IN  [sc |-> sc1,
                  g |-> IF sc1.checked_count % options.report_frequency = 0
                        THEN Yield(g1, sc1.checked_count) ELSE g1]

\* scan_files, lines 348-356: the loop body for the next listed path. At a
\* symlink the generator returns (line 352): pc becomes "done" with the rest
\* of the list still in files_p.
FileListStep(sc, g) ==
    LET file_p == Head(g.files_p)
        g1 == [g EXCEPT !.files_p = Tail(@)]
    IN  IF file_p \in exists /\ fs[file_p].kind = "link"
        THEN [sc |-> Bump(sc, "skipped_links"), g |-> [g1 EXCEPT !.pc = "done"]]
        ELSE LET sc1 == ScanFile(sc, file_p, g.files_root, g.uid, g.gid)
             IN  [sc |-> sc1,
                  g |-> IF sc1.checked_count % options.report_frequency = 0
                        THEN Yield(g1, sc1.checked_count) ELSE g1]

\* the frames whose listing is used up return to their caller
RECURSIVE Settle(_)
Settle(g) ==
    IF g.stack # <<>> /\ g.stack[Len(g.stack)].entries = <<>>
    THEN Settle([g EXCEPT !.stack = Front(@)])
    ELSE g

\* the generator is exhausted when nothing is left to scan
Finish(g) ==
    LET h == Settle(g)
    IN  IF h.pc = "run" /\ h.stack = <<>> /\ h.scan_dirs = <<>> /\ h.files_p = <<>>
        THEN [h EXCEPT !.pc = "done"]
        ELSE IF h.pc = "run" THEN h
        ELSE g

\* one step of a running scan: the next entry of the directory being listed,
\* else the next directory of scan_directories (lines 265-267), else the next
\* path of scan_files
ScanStep(sc, g) ==
    LET r == IF g.stack # <<>>
             THEN DirectoryEntryStep(sc, g)
             ELSE IF g.scan_dirs # <<>>
             THEN EnterDirectory(sc,
                      [g EXCEPT !.scan_dirs = Tail(@), !.root_p = Head(g.scan_dirs)],
                      Head(g.scan_dirs))
             ELSE FileListStep(sc, g)
    IN  [sc |-> r.sc, g |-> Finish(r.g)]

-----------------------------------------------------------------------------
(* Comparison index (CanonicalFiles) and the checksum cache                *)

\* the attributes do_compare can narrow on besides the size
Attrs == {"name", "file_type", "parent", "rel_path", "ctime", "mtime"}

\* the value None of a missing checksum
None == 0

\* the false result of comparefiles.compare for files that differ
NoMatch == 0

\* the lookup that constrains the name whether it was asked to or not
GetIntersection_named(size, attrs, m) ==
    LET ok(e) == /\ e.metadata.size = size
                 /\ \A a \in attrs \cup {"name"} : e.metadata[a] = m[a]
        hits == SelectSeq(canonical_scan.files, ok)
    IN  [k \in 1..Len(hits) |-> hits[k].path]

\* CanonicalFiles.get_intersection: the canonical paths of the given size whose
\* attributes equal the given ones; attrs holds the attributes that are not
\* None, given with the values of the metadata m
GetIntersection(size, attrs, m) ==
    LET ok(e) == /\ e.metadata.size = size
                 /\ \A a \in attrs : e.metadata[a] = m[a]
        hits == SelectSeq(canonical_scan.files, ok)
    IN  [k \in 1..Len(hits) |-> hits[k].path]

\* ScanFiles.retrieve_checksum_from_cache
RetrieveChecksumFromCache(checksum, file_p) ==
    IF file_p \in DOMAIN checksum THEN checksum[file_p] ELSE None

\* CanonicalFiles.get_checksum
GetChecksum(checksum, file_p) == RetrieveChecksumFromCache(checksum, file_p)

\* the cache write with the store forgotten
StoreChecksumInCache_forgotten(checksum, file_p, value) == checksum

\* the cache write that stores the value for every canonical file
StoreChecksumInCache_all(checksum, file_p, value) ==
    [p \in DOMAIN checksum \cup Paths(canonical_scan.files) |-> value]

\* ScanFiles.store_checksum_in_cache / self.canonical_scan.checksum[p] = checksum
StoreChecksumInCache(checksum, file_p, value) ==
    [p \in DOMAIN checksum \cup {file_p} |->
        IF p = file_p THEN value ELSE checksum[p]]

\* the comparator that trusts a cached checksum once the lengths agree
Compare_trusting(file_a_path, file_b_path, file_b_checksum) ==
    IF file_a_path \notin exists \/ file_b_path \notin exists
    THEN [raised |-> TRUE, checksum |-> NoMatch]
    ELSE LET a == fs[file_a_path].content
             b == fs[file_b_path].content
         IN  IF file_b_checksum # None
             THEN [raised |-> FALSE,
                   checksum |-> IF ByteLen(a) = ByteLen(b)
                                THEN file_b_checksum ELSE NoMatch]
             ELSE [raised |-> FALSE,
                   checksum |-> IF ByteLen(a) = ByteLen(b) /\ a = b
                                THEN Digest(a) ELSE NoMatch]

\* comparefiles.compare(file_a_path, file_b_path, file_b_checksum, single_pass):
\* raises when a path is not on disk; with a checksum of b, digests a and
\* compares; without one, compares the bytes and digests a on the way
Compare(file_a_path, file_b_path, file_b_checksum) ==
    IF file_a_path \notin exists \/ file_b_path \notin exists
    THEN [raised |-> TRUE, checksum |-> NoMatch]
    ELSE LET a == fs[file_a_path].content
             b == fs[file_b_path].content
         IN  IF file_b_checksum # None
             THEN [raised |-> FALSE,
                   checksum |-> IF ByteLen(a) = ByteLen(b) /\ Digest(a) = file_b_checksum
                                THEN Digest(a) ELSE NoMatch]
             ELSE [raised |-> FALSE,
                   checksum |-> IF ByteLen(a) = ByteLen(b) /\ a = b
                                THEN Digest(a) ELSE NoMatch]

-----------------------------------------------------------------------------
(* Session                                                                 *)

\* Session.__init__: the result fields
SessionInit ==
    [ actual_matches |-> <<>>,
      unique |-> {},
      skipped_self |-> {},
      source_error_files |-> {},
      possible_match_error_files |-> {},
      pre_computed_checksum_count |-> 0 ]

\* add_unique with the insertion forgotten
AddUnique_forgotten(s, file_p) == s

\* add_unique that keeps the latest unique file only
AddUnique_replacing(s, file_p) == [s EXCEPT !.unique = {file_p}]

\* Session.add_unique
AddUnique(s, file_p) == [s EXCEPT !.unique = @ \cup {file_p}]

\* append_match with the insertion forgotten
AppendMatch_forgotten(s, file_p, match_p) == s

\* Session.append_match
AppendMatch(s, file_p, match_p) ==
    [s EXCEPT !.actual_matches =
        IF file_p \in DOMAIN @
        THEN [@ EXCEPT ![file_p] = Append(@, match_p)]
        ELSE [p \in DOMAIN @ \cup {file_p} |->
                IF p = file_p THEN <<match_p>> ELSE @[p]]]

\* a Python value used as a condition: an empty string, 0 and None are false
Truthy(a, v) ==
    CASE a \in {"name", "file_type", "parent"} -> v # ""
      [] a = "rel_path" -> v # <<>>
      [] OTHER -> v # 0

\* do_compare, lines 221-249: each flag variable is overwritten by the
\* attribute's value (flag true) or by None (flag false); the flags that are
\* still true when the next query file is reached
FlagsAfter(flags, m) == {a \in flags : Truthy(a, m[a])}

\* the decision that ignores the outcome of the candidate loop
UniqueAfterLoop_always(match, skip, n) == TRUE

\* the decision of the earlier revision (src/src/comparesession.py, line 241)
UniqueAfterLoop_legacy(match, skip, n) == ~match

\* the decision without the clause for more than one candidate
UniqueAfterLoop_noself(match, skip, n) == ~match /\ ~skip

\* do_compare, line 300: the decision taken after the candidate loop
UniqueAfterLoop(match, skip, n) == ~match /\ (~skip \/ (skip /\ n > 1))

\* the self test without effect: a file is compared with itself
IsSelf_never(file_p, possible_match_p) == FALSE

\* do_compare, line 267: the candidate is the query file itself
IsSelf(file_p, possible_match_p) == file_p = possible_match_p

\* the handler with the two error sets swapped
OnAssertionError_swapped(s, file_p, possible_match_p) ==
    [s EXCEPT
       !.possible_match_error_files =
           IF file_p \notin exists THEN @ \cup {file_p} ELSE @,
       !.source_error_files =
           IF possible_match_p \notin exists THEN @ \cup {possible_match_p} ELSE @]

\* do_compare, lines 287-292: the comparator raised AssertionError; the side
\* that is gone from disk is recorded
OnAssertionError(s, file_p, possible_match_p) ==
    [s EXCEPT
       !.source_error_files =
           IF file_p \notin exists THEN @ \cup {file_p} ELSE @,
       !.possible_match_error_files =
           IF possible_match_p \notin exists THEN @ \cup {possible_match_p} ELSE @]

\* do_compare, lines 267-297: the body of the candidate loop for one candidate.
\* Gives the session and the checksum cache after it, whether it matched or
\* was the query file itself, and the comparator call it made (if any).
CandidateStep(s, checksum, file_p, possible_match_p, skip_checksum) ==
    IF IsSelf(file_p, possible_match_p)
    THEN [ session |-> [s EXCEPT !.skipped_self = @ \cup {file_p}],
           checksum |-> checksum, match |-> FALSE, skip |-> TRUE, calls |-> <<>> ]
    ELSE IF skip_checksum
    THEN [ session |-> AppendMatch(s, file_p, possible_match_p),
           checksum |-> checksum, match |-> TRUE, skip |-> FALSE, calls |-> <<>> ]
    ELSE
      LET possible_match_checksum == GetChecksum(checksum, possible_match_p)
          s1 == IF possible_match_checksum # None
                THEN [s EXCEPT !.pre_computed_checksum_count = @ + 1]
                ELSE s
          r == Compare(file_p, possible_match_p, possible_match_checksum)
          call == [ file_a_path |-> file_p,
                    file_b_path |-> possible_match_p,
                    file_b_checksum |-> possible_match_checksum,
                    raised |-> r.raised,
                    checksum |-> r.checksum,
                    a_on_disk |-> file_p \in exists,
                    b_on_disk |-> possible_match_p \in exists ]
      IN  IF r.raised
          THEN [ session |-> OnAssertionError(s1, file_p, possible_match_p),
                 checksum |-> checksum, match |-> FALSE, skip |-> FALSE,
                 calls |-> <<call>> ]
          ELSE IF r.checksum # NoMatch
          THEN [ session |-> AppendMatch(s1, file_p, possible_match_p),
                 checksum |-> StoreChecksumInCache(checksum, possible_match_p, r.checksum),
                 match |-> TRUE, skip |-> FALSE, calls |-> <<call>> ]
          ELSE [ session |-> s1, checksum |-> checksum,
                 match |-> FALSE, skip |-> FALSE, calls |-> <<call>> ]

\* do_compare, lines 216-219: the head of the loop over the query files after
\* file d.i is finished: the next file is counted and its count is yielded
\* before it is examined; after the last file the generator is exhausted
NextQueryFile(d, n_files) ==
    IF d.i < n_files
    THEN [d EXCEPT !.i = @ + 1, !.count = @ + 1, !.pc = "yield",
                   !.possible_matches = <<>>, !.j = 0,
                   !.match = FALSE, !.skip = FALSE]
    ELSE [d EXCEPT !.pc = "done", !.possible_matches = <<>>, !.j = 0,
                   !.match = FALSE, !.skip = FALSE]

\* the do_compare generator before it is called
DcInit ==
    [ pc |-> "init", count |-> 0, i |-> 0, flags |-> {}, passed |-> {},
      skip_checksum |-> FALSE, possible_matches |-> <<>>, j |-> 0,
      match |-> FALSE, skip |-> FALSE ]

HistInit == [ calls |-> <<>>, yields |-> <<>>, cands |-> <<>>, first |-> <<>> ]

\* the yield gated by report_frequency, as the scanners gate theirs
Yielded_gated(h, d) ==
    IF d.pc = "yield" /\ d.count % options.report_frequency = 0
    THEN [h EXCEPT !.yields = Append(@, d.count)] ELSE h

\* the history after the generator frame became d: a yield hands d.count out
Yielded(h, d) ==
    IF d.pc = "yield" THEN [h EXCEPT !.yields = Append(@, d.count)] ELSE h

\* the sets of attribute flags a caller passes as True
FlagSets == {S \in SUBSET Attrs : Cardinality(S) <= MaxFlags}

\* the assertion left out
AssertionFails_never(flags, skip_checksum) == FALSE

\* do_compare, lines 211-212: if skip_checksum: assert name is True
AssertionFails(flags, skip_checksum) == skip_checksum /\ "name" \notin flags

\* do_compare called: the assertion of lines 211-212, then the generator runs
\* to its first yield
DoCompareBegin ==
    /\ dc.pc = "init"
    /\ \E flags \in FlagSets, skip_checksum \in BOOLEAN :
         LET d == [dc EXCEPT !.flags = flags, !.passed = flags,
                             !.skip_checksum = skip_checksum]
         IN  IF AssertionFails(flags, skip_checksum)
             THEN /\ dc' = [d EXCEPT !.pc = "AssertionError"]
                  /\ hist' = hist
             ELSE /\ dc' = NextQueryFile(d, Len(query_scan.files))
                  /\ hist' = Yielded(hist, dc')
    /\ UNCHANGED <<fs, exists, vanished, query_scan, canonical_scan, scanCtl, session>>

\* the caller pulls again at file dc.i: lines 221-263, the attribute values
\* and the candidate lookup; a file without candidates is unique at once
DoCompareResume ==
    /\ dc.pc = "yield"
    /\ LET file_p == query_scan.files[dc.i].path
           metadata == query_scan.files[dc.i].metadata
           possible_matches == GetIntersection(metadata.size, dc.flags, metadata)
           d == [dc EXCEPT !.flags = FlagsAfter(dc.flags, metadata)]
           h == [hist EXCEPT !.cands = Append(@,
                    [file_p |-> file_p, attrs |-> dc.flags,
                     possible_matches |-> possible_matches])]
       IN  IF Len(possible_matches) = 0
           THEN /\ session' = AddUnique(session, file_p)
                /\ dc' = NextQueryFile(d, Len(query_scan.files))
                /\ hist' = Yielded(h, dc')
           ELSE /\ session' = session
                /\ dc' = [d EXCEPT !.pc = "loop",
                                   !.possible_matches = possible_matches,
                                   !.j = 1, !.match = FALSE, !.skip = FALSE]
                /\ hist' = h
    /\ UNCHANGED <<fs, exists, vanished, query_scan, canonical_scan, scanCtl>>

\* the caller's pull goes on at candidate dc.j of file dc.i: lines 265-297 for
\* this candidate and, after the last one, lines 299-301 and the next yield
DoCompareCandidate ==
    /\ dc.pc = "loop"
    /\ LET file_p == query_scan.files[dc.i].path
           possible_match_p == dc.possible_matches[dc.j]
           r == CandidateStep(session, canonical_scan.checksum, file_p,
                              possible_match_p, dc.skip_checksum)
           match == dc.match \/ r.match
           skip == dc.skip \/ r.skip
           h == [hist EXCEPT !.calls = @ \o r.calls]
       IN  /\ canonical_scan' = [canonical_scan EXCEPT !.checksum = r.checksum]
           /\ IF dc.j < Len(dc.possible_matches)
              THEN /\ session' = r.session
                   /\ dc' = [dc EXCEPT !.j = @ + 1, !.match = match, !.skip = skip]
                   /\ hist' = h
              ELSE /\ session' =
                        IF UniqueAfterLoop(match, skip, Len(dc.possible_matches))
                        THEN AddUnique(r.session, file_p)
                        ELSE r.session
                   /\ dc' = NextQueryFile(dc, Len(query_scan.files))
                   /\ hist' = Yielded(h, dc')
    /\ UNCHANGED <<fs, exists, vanished, query_scan, scanCtl>>

\* the caller, after exhausting do_compare, calls it again on the same
\* session with the same arguments; the history keeps the results of the
\* first run and starts afresh for the second
DoCompareAgain ==
    /\ dc.pc = "done"
    /\ hist.first = <<>>
    /\ dc' = NextQueryFile([DcInit EXCEPT !.flags = dc.passed, !.passed = dc.passed,
                                         !.skip_checksum = dc.skip_checksum],
                           Len(query_scan.files))
    /\ hist' = Yielded([HistInit EXCEPT
                           !.first = <<[actual_matches |-> session.actual_matches,
                                        unique |-> session.unique]>>], dc')
    /\ UNCHANGED <<fs, exists, vanished, query_scan, canonical_scan, scanCtl, session>>

\* the environment: a scanned file vanishes from disk while the comparison
\* runs. do_compare reads the disk only in the candidate loop, so a file that
\* vanishes earlier is seen there as one that vanished just before it.
Vanish ==
    /\ dc.pc = "loop"
    /\ vanished < MaxVanish
    /\ \E p \in exists \cap (Paths(query_scan.files) \cup Paths(canonical_scan.files)) :
         /\ exists' = exists \ {p}
         /\ vanished' = vanished + 1
    /\ UNCHANGED <<fs, query_scan, canonical_scan, scanCtl, session, dc, hist>>

\* the environment: an entry that a running query scan has listed, or a
\* path of its file list, vanishes from disk before the scan reaches it
VanishDuringScan ==
    /\ dqs.pc = "run"
    /\ vanished < MaxVanish
    /\ \E p \in exists \cap
            ({e.path : e \in UNION {{g.entries[k] : k \in DOMAIN g.entries} :
                                       g \in {dqs.stack[n] : n \in DOMAIN dqs.stack}}}
               \cup {dqs.files_p[k] : k \in DOMAIN dqs.files_p}) :
         /\ exists' = exists \ {p}
         /\ vanished' = vanished + 1
    /\ UNCHANGED <<fs, query_scan, canonical_scan, scanCtl, session, dc, hist>>

\* os.path.isdir(p)
IsDir(p) == p \in exists /\ fs[p].kind = "dir"

\* do_query_scan called, lines 128-137: the query items are split into
\* directories and files. The scanners' uid, gid and root parameters, which
\* the session does not pass, are those of GenInit.
DoQueryScanBegin ==
    /\ dqs.pc = "init"
    /\ dc.pc = "init"
    /\ dqs' = Finish([dqs EXCEPT
                 !.pc = "run",
                 !.scan_dirs = SelectSeq(dqs.items, IsDir),
                 !.files_p = SelectSeq(dqs.items, LAMBDA p : ~IsDir(p))])
    /\ UNCHANGED <<fs, exists, vanished, query_scan, canonical_scan, options, dcs,
                   session, dc, hist>>

\* the caller pulls the query scan on: lines 137-141
DoQueryScanStep ==
    /\ dqs.pc = "run"
    /\ dc.pc = "init"
    /\ LET r == ScanStep(query_scan, dqs)
       IN  /\ query_scan' = r.sc
           /\ dqs' = r.g
    /\ UNCHANGED <<fs, exists, vanished, canonical_scan, options, dcs,
                   session, dc, hist>>

\* do_canonical_scan called, line 151: scan_directory(canonical_dir); the
\* root of the relative paths is the canonical directory
DoCanonicalScanBegin ==
    /\ dcs.pc = "init"
    /\ dc.pc = "init"
    /\ LET r == EnterDirectory(canonical_scan,
                    [dcs EXCEPT !.pc = "run", !.root_p = Head(dcs.items)],
                    Head(dcs.items))
       IN  /\ canonical_scan' = r.sc
           /\ dcs' = Finish(r.g)
    /\ UNCHANGED <<fs, exists, vanished, query_scan, options, dqs,
                   session, dc, hist>>

\* the caller pulls the canonical scan on: line 151
DoCanonicalScanStep ==
    /\ dcs.pc = "run"
    /\ dc.pc = "init"
    /\ LET r == ScanStep(canonical_scan, dcs)
       IN  /\ canonical_scan' = r.sc
           /\ dcs' = r.g
    /\ UNCHANGED <<fs, exists, vanished, query_scan, options, dqs,
                   session, dc, hist>>

-----------------------------------------------------------------------------
(* The comparison of two completed scans                                   *)

\* the sequences without repetition of at most n members of S
InjSeqs(S, n) ==
    {q \in UNION {[1..k -> S] : k \in 0..n} :
        \A x, y \in DOMAIN q : q[x] = q[y] => x = y}

Range(q) == {q[k] : k \in DOMAIN q}

\* the ScanResult of a completed scan under root that kept the files of the
\* sequence kept
Scanned(kept, root) ==
    [ ScanInit EXCEPT
        !.files = [k \in 1..Len(kept) |->
                     [path |-> kept[k], metadata |-> GetMetadata(kept[k], root)]],
        !.initial_count = Len(kept),
        !.checked_count = Len(kept) ]

\* Both scans are complete: the query scan of a directory kept any files of it
\* in any order (listing order and filters), the canonical scan kept all files
\* of the canonical directory.
Init ==
    /\ \E content \in [Files -> Contents] :
         fs = [p \in Files |-> Inode(p, "file", content[p])]
    /\ exists = Files \cup Dirs
    /\ vanished = 0
    /\ \E query_dir \in Dirs :
         \E kept \in InjSeqs(Range(Under(query_dir)), MaxQuery) :
            query_scan = Scanned(kept, query_dir)
    /\ \E canonical_dir \in Dirs :
         canonical_scan = Scanned(Under(canonical_dir), canonical_dir)
    /\ options = DefaultOptions
    /\ dqs = [GenInit EXCEPT !.pc = "done"]
    /\ dcs = [GenInit EXCEPT !.pc = "done"]
    /\ session = SessionInit
    /\ dc = DcInit
    /\ hist = HistInit

Next ==
    \/ DoCompareBegin
    \/ DoCompareResume
    \/ DoCompareCandidate
    \/ Vanish

Spec == Init /\ [][Next]_vars

-----------------------------------------------------------------------------
(* do_compare run twice over the same scans, the disk unchanged            *)

NextTwice ==
    \/ DoCompareBegin
    \/ DoCompareResume
    \/ DoCompareCandidate
    \/ DoCompareAgain

SpecTwice == Init /\ [][NextTwice]_vars

-----------------------------------------------------------------------------
(* The query scan alone, over the whole tree and the options               *)

\* the most query items of one scan
MaxItems == 2
\* report_frequency is 1..MaxFreq
MaxFreq == 2

\* what a caller may list as a query item
Items == {RootDir, SubDir, FileA, Link, Missing}

\* the tree on disk: the hidden file is empty, the directories in unlistable
\* deny listing, every directory lists in the opposite order when reversed
Tree(content, unlistable, reversed) ==
    [p \in TreePaths |->
        [Inode(p, KindOf(p), IF p = Hidden THEN 0 ELSE content[p]) EXCEPT
            !.listable = p \notin unlistable,
            !.reversed = reversed]]

OptionSets ==
    [ skip_sub_dir : BOOLEAN, skip_hidden : BOOLEAN, skip_zero_len : BOOLEAN,
      incl_dir_regexes : {NoRegexes, <<"s">>},
      excl_dir_regexes : {NoRegexes, <<"t">>},
      incl_file_regexes : {NoRegexes, <<>>, <<"x">>},
      excl_file_regexes : {NoRegexes, <<"a">>},
      report_frequency : 1..MaxFreq ]

InitScan ==
    /\ \E disk \in {<<{}, FALSE>>, <<{}, TRUE>>, <<{SubDir}, FALSE>>,
                     <<{SubSubDir}, FALSE>>} :
         fs = Tree([p \in TreePaths |-> 1], disk[1], disk[2])
    /\ exists = TreePaths
    /\ vanished = 0
    /\ query_scan = ScanInit
    /\ canonical_scan = ScanInit
    /\ options \in OptionSets
    /\ \E query_items \in InjSeqs(Items, MaxItems) :
         dqs = [GenInit EXCEPT !.items = query_items]
    /\ dcs = GenInit
    /\ session = SessionInit
    /\ dc = DcInit
    /\ hist = HistInit

NextScan ==
    \/ DoQueryScanBegin
    \/ DoQueryScanStep

SpecScan == InitScan /\ [][NextScan]_vars

-----------------------------------------------------------------------------
(* The query scan of a tree whose files vary in mode and owner and whose   *)
(* entries may vanish while the scan runs                                  *)

\* user and group ids
Ids == {0, 1}

\* st_mode: the owner's write bit and any of the three read bits
ModeSets ==
    {128 + u * S_IRUSR + g * S_IRGRP + o * S_IROTH : u \in {0, 1}, g \in {0, 1}, o \in {0, 1}}

InitStat ==
    /\ \E st_mode \in ModeSets, file_uid \in Ids, file_gid \in Ids :
         fs = [p \in TreePaths |->
                 LET inode == Tree([q \in TreePaths |-> 1], {}, FALSE)[p]
                 IN  IF inode.kind = "file"
                     THEN [inode EXCEPT !.st_mode = st_mode, !.file_uid = file_uid,
                                        !.file_gid = file_gid]
                     ELSE inode]
    /\ exists = TreePaths
    /\ vanished = 0
    /\ query_scan = ScanInit
    /\ canonical_scan = ScanInit
    /\ options \in {o \in OptionSets :
                       /\ o.incl_dir_regexes = NoRegexes
                       /\ o.excl_dir_regexes = NoRegexes
                       /\ o.incl_file_regexes = NoRegexes
                       /\ o.report_frequency = 1}
    /\ \E query_items \in {<<RootDir>>, <<SubDir, FileA>>}, uid \in Ids, gid \in Ids :
         dqs = [GenInit EXCEPT !.items = query_items, !.uid = uid, !.gid = gid]
    /\ dcs = GenInit
    /\ session = SessionInit
    /\ dc = DcInit
    /\ hist = HistInit

NextStat ==
    \/ DoQueryScanBegin
    \/ DoQueryScanStep
    \/ VanishDuringScan

SpecStat == InitStat /\ [][NextStat]_vars

-----------------------------------------------------------------------------
(* The query scan of the tree under every combination of the filters       *)

FilterSets ==
    [ skip_sub_dir : BOOLEAN, skip_hidden : BOOLEAN, skip_zero_len : BOOLEAN,
      incl_dir_regexes : {NoRegexes, <<"s">>, <<"t">>},
      excl_dir_regexes : {NoRegexes, <<"s">>, <<"t">>},
      incl_file_regexes : {NoRegexes, <<"x">>, <<"l">>},
      excl_file_regexes : {NoRegexes, <<"a">>, <<"l">>},
      report_frequency : {1} ]

InitFilter ==
    /\ fs = Tree([p \in TreePaths |-> 1], {}, FALSE)
    /\ exists = TreePaths
    /\ vanished = 0
    /\ query_scan = ScanInit
    /\ canonical_scan = ScanInit
    /\ options \in FilterSets
    /\ \E query_items \in {<<RootDir>>, <<SubDir>>, <<FileSA, Link, Hidden>>} :
         dqs = [GenInit EXCEPT !.items = query_items]
    /\ dcs = GenInit
    /\ session = SessionInit
    /\ dc = DcInit
    /\ hist = HistInit

SpecFilter == InitFilter /\ [][NextScan]_vars

-----------------------------------------------------------------------------
(* The session: both scans and the comparison, as the caller drives them   *)

\* A caller drives the two scans in any interleaving and as far as it likes,
\* then calls do_compare; no scan is pulled on after that.
InitSession ==
    /\ fs = Tree([p \in TreePaths |->
                    IF p = FileSB THEN 2 ELSE IF p = FileTC THEN 3 ELSE 1],
                 {}, FALSE)
    /\ exists = TreePaths
    /\ vanished = 0
    /\ query_scan = ScanInit
    /\ canonical_scan = ScanInit
    /\ \E report_frequency \in 1..MaxFreq :
         options = [DefaultOptions EXCEPT !.report_frequency = report_frequency]
    /\ \E query_items \in {<<SubDir>>, <<FileA, FileSB>>} :
         dqs = [GenInit EXCEPT !.items = query_items]
    /\ \E canonical_dir \in {RootDir, SubDir} :
         dcs = [GenInit EXCEPT !.items = <<canonical_dir>>]
    /\ session = SessionInit
    /\ dc = DcInit
    /\ hist = HistInit

NextSession ==
    \/ DoQueryScanBegin
    \/ DoQueryScanStep
    \/ DoCanonicalScanBegin
    \/ DoCanonicalScanStep
    \/ DoCompareBegin
    \/ DoCompareResume
    \/ DoCompareCandidate

SpecSession == InitSession /\ [][NextSession]_vars

\* The whole life of a session: the scans, do_compare, do_compare called
\* again, and files vanishing from disk while the comparison runs.
NextLife ==
    \/ DoQueryScanBegin
    \/ DoQueryScanStep
    \/ DoCanonicalScanBegin
    \/ DoCanonicalScanStep
    \/ DoCompareBegin
    \/ DoCompareResume
    \/ DoCompareCandidate
    \/ DoCompareAgain
    \/ Vanish

SpecLife == InitSession /\ [][NextLife]_vars

\* A session over a tree with empty files: /r/.h is empty and hidden, /r/a.x
\* is empty or not; skip_zero_len and skip_hidden are set or not.
InitZero ==
    /\ \E content \in {0, 1} :
         fs = Tree([p \in TreePaths |-> IF p = FileA THEN content ELSE 1], {}, FALSE)
    /\ exists = TreePaths
    /\ vanished = 0
    /\ query_scan = ScanInit
    /\ canonical_scan = ScanInit
    /\ \E skip_zero_len \in BOOLEAN, skip_hidden \in BOOLEAN :
         options = [DefaultOptions EXCEPT !.skip_zero_len = skip_zero_len,
                                          !.skip_hidden = skip_hidden]
    /\ \E query_items \in {<<RootDir>>, <<Hidden, FileA>>} :
         dqs = [GenInit EXCEPT !.items = query_items]
    /\ dcs = [GenInit EXCEPT !.items = <<SubDir>>]
    /\ session = SessionInit
    /\ dc = DcInit
    /\ hist = HistInit

SpecZero == InitZero /\ [][NextSession]_vars

\* A session constructed with a canonical_dir that may be missing from disk
\* or be a file (Session.__init__, lines 63-96, asserts its type only); the
\* caller drives the two scans.
InitEntry ==
    /\ fs = Tree([p \in TreePaths |-> 1], {}, FALSE)
    /\ exists = TreePaths
    /\ vanished = 0
    /\ query_scan = ScanInit
    /\ canonical_scan = ScanInit
    /\ \E report_frequency \in 1..MaxFreq :
         options = [DefaultOptions EXCEPT !.report_frequency = report_frequency]
    /\ \E query_items \in {<<SubDir>>, <<FileA, FileSB>>} :
         dqs = [GenInit EXCEPT !.items = query_items]
    /\ \E canonical_dir \in {RootDir, Missing, FileA} :
         dcs = [GenInit EXCEPT !.items = <<canonical_dir>>]
    /\ session = SessionInit
    /\ dc = DcInit
    /\ hist = HistInit

NextEntry ==
    \/ DoQueryScanBegin
    \/ DoQueryScanStep
    \/ DoCanonicalScanBegin
    \/ DoCanonicalScanStep

SpecEntry == InitEntry /\ [][NextEntry]_vars

-----------------------------------------------------------------------------
(* Claims about do_compare                                                 *)

QueryPaths == Paths(query_scan.files)
CanonicalSizes ==
    {canonical_scan.files[k].metadata.size : k \in 1..Len(canonical_scan.files)}
QuerySize(k) == query_scan.files[k].metadata.size
QueryPath(k) == query_scan.files[k].path
MatchKeys == DOMAIN session.actual_matches
Exhausted == dc.pc = "done"

\* query file n has left the candidate loop
Finished(n) == n <= Len(hist.cands) /\ (Exhausted \/ n < dc.i)

\* the candidates of query file n that the candidate loop has passed
Passed(n) ==
    IF Finished(n) THEN Range(hist.cands[n].possible_matches)
    ELSE IF dc.pc = "loop" /\ n = dc.i
    THEN {dc.possible_matches[k] : k \in 1..(dc.j - 1)}
    ELSE {}

Calls == Range(hist.calls)
Confirmed(call) == ~call.raised /\ call.checksum # NoMatch

\* C1: after do_compare is exhausted, every query file whose size is the size
\* of no canonical file is in the Unique set and is no key of the MatchSet,
\* whatever flags were passed.
C1_SizeMismatchIsUnique ==
    Exhausted =>
        \A k \in 1..Len(query_scan.files) :
            QuerySize(k) \notin CanonicalSizes =>
                /\ QueryPath(k) \in session.unique
                /\ QueryPath(k) \notin MatchKeys

C1_Witness ==
    /\ Exhausted
    /\ dc.passed # {}
    /\ \E k \in 1..Len(query_scan.files) :
          /\ QuerySize(k) \notin CanonicalSizes
          /\ QueryPath(k) \in session.unique
    /\ MatchKeys # {}

\* C2: in every state of do_compare no query path is in its own MatchSet list;
\* a candidate that is the query path itself is recorded in skipped_self and is
\* never handed to the comparator.
C2_NeverOwnDuplicate ==
    /\ \A p \in MatchKeys : p \notin Range(session.actual_matches[p])
    /\ \A call \in Calls : call.file_a_path # call.file_b_path
    /\ \A n \in 1..Len(query_scan.files) :
          QueryPath(n) \in Passed(n) => QueryPath(n) \in session.skipped_self

C2_Witness ==
    /\ Exhausted
    /\ \E n \in 1..Len(query_scan.files) :
          /\ QueryPath(n) \in Passed(n)
          /\ QueryPath(n) \in MatchKeys
          /\ QueryPath(n) \in session.skipped_self
          /\ \E call \in Calls : call.file_a_path = QueryPath(n)

\* query file n is in both scans and its only candidate was itself
OnlySelf(n) ==
    /\ Finished(n)
    /\ QueryPath(n) \in Paths(canonical_scan.files)
    /\ hist.cands[n].possible_matches = <<QueryPath(n)>>

C4_UniqueIff ==
    Exhausted =>
        \A n \in 1..Len(query_scan.files) :
            LET f == QueryPath(n)
                cands == hist.cands[n].possible_matches
            IN  /\ f \in session.unique <=>
                      /\ f \notin MatchKeys
                      /\ (f \notin Range(cands) \/ Len(cands) > 1)
                /\ Len(cands) = 0 =>
                      /\ f \in session.unique
                      /\ \A call \in Calls : call.file_a_path # f

C4_Witness ==
    /\ Exhausted
    /\ \E n \in 1..Len(query_scan.files) :
          /\ QueryPath(n) \in Range(hist.cands[n].possible_matches)
          /\ Len(hist.cands[n].possible_matches) > 1
          /\ QueryPath(n) \in session.unique
    /\ \E n \in 1..Len(query_scan.files) :
          /\ Len(hist.cands[n].possible_matches) = 0
          /\ QueryPath(n) \in session.unique

\* C5: after do_compare is exhausted every path of the query ScanResult is a
\* key of the MatchSet or in the Unique set, the self-skip set or the
\* source-error set, also when files vanish during the comparison.
C5_EveryQueryFileClassified ==
    Exhausted =>
        QueryPaths \subseteq
            (MatchKeys \cup session.unique \cup session.skipped_self
               \cup session.source_error_files)

C5_Witness ==
    /\ Exhausted
    /\ vanished > 0
    /\ session.source_error_files # {}
    /\ session.possible_match_error_files # {}
    /\ MatchKeys # {}

\* C6: once the comparator confirmed canonical file B identical to a query
\* file, every later comparator call against B receives B's cached checksum
\* (never None), and pre_computed_checksum_count counts exactly the calls that
\* received a cached checksum.
C6_CachedChecksumReused ==
    /\ \A m, n \in 1..Len(hist.calls) :
          (m < n /\ Confirmed(hist.calls[m])
                 /\ hist.calls[m].file_b_path = hist.calls[n].file_b_path)
            => /\ hist.calls[n].file_b_checksum # None
               /\ hist.calls[n].file_b_checksum = hist.calls[m].checksum
    /\ session.pre_computed_checksum_count =
          Cardinality({n \in 1..Len(hist.calls) : hist.calls[n].file_b_checksum # None})

C6_Witness ==
    /\ session.pre_computed_checksum_count > 0
    /\ \E m, n \in 1..Len(hist.calls) :
          /\ m < n
          /\ Confirmed(hist.calls[m])
          /\ hist.calls[m].file_b_path = hist.calls[n].file_b_path
          /\ hist.calls[m].file_a_path # hist.calls[n].file_a_path
          /\ hist.calls[n].file_b_checksum # None

\* C7: when the comparator raises for (f, c), f is put in source_error_files
\* if it is gone from disk and c in possible_match_error_files if it is gone, no
\* match is recorded for the pair, and every remaining candidate and query
\* file is still processed: do_compare never ends with that failure.
C7_PreconditionFailureHandled ==
    /\ \A call \in Calls :
          call.raised =>
              /\ ~call.a_on_disk => call.file_a_path \in session.source_error_files
              /\ ~call.b_on_disk =>
                     call.file_b_path \in session.possible_match_error_files
              /\ call.file_a_path \in MatchKeys =>
                     call.file_b_path \notin
                         Range(session.actual_matches[call.file_a_path])
    /\ session.source_error_files \subseteq
          {call.file_a_path : call \in {c \in Calls : c.raised /\ ~c.a_on_disk}}
    /\ session.possible_match_error_files \subseteq
          {call.file_b_path : call \in {c \in Calls : c.raised /\ ~c.b_on_disk}}
    /\ dc.pc = "AssertionError" => hist.calls = <<>> /\ hist.cands = <<>>
    /\ (Exhausted /\ ~dc.skip_checksum) =>
          /\ Len(hist.cands) = Len(query_scan.files)
          /\ \A n \in 1..Len(query_scan.files) :
                \A c \in Range(hist.cands[n].possible_matches) \ {QueryPath(n)} :
                    \E call \in Calls :
                        call.file_a_path = QueryPath(n) /\ call.file_b_path = c

C7_Witness ==
    /\ Exhausted
    /\ \E m, n \in 1..Len(hist.calls) :
          /\ m < n
          /\ hist.calls[m].raised
          /\ ~hist.calls[m].a_on_disk
          /\ hist.calls[m].file_a_path # hist.calls[n].file_a_path
          /\ Confirmed(hist.calls[n])
    /\ \E m, n \in 1..Len(hist.calls) :
          /\ m < n
          /\ hist.calls[m].raised
          /\ ~hist.calls[m].b_on_disk
          /\ hist.calls[m].file_a_path = hist.calls[n].file_a_path

-----------------------------------------------------------------------------
(* Claims about the session phases and the scan generators                 *)

\* the query files do_compare has classified so far
Classified ==
    session.unique \cup DOMAIN session.actual_matches \cup session.skipped_self
        \cup session.source_error_files \cup session.possible_match_error_files

\* the generator was called and has ended, by exhaustion or by an exception
Ended(g) == g.pc \notin {"init", "run"}

\* the directory entries a scan has listed and not reached
Unreached(g) == UNION {Range(g.stack[k].entries) : k \in DOMAIN g.stack}

\* C8: do_compare classifies no query file (no insert into the match set, the
\* unique set, the self-skip set or the error sets) unless do_query_scan and
\* do_canonical_scan were both run to exhaustion before it.
C8_CompareOnlyAfterBothScans ==
    Classified # {} => dqs.pc = "done" /\ dcs.pc = "done"

\* C9: when a directory scan has ended and a sub-directory denied listing, the
\* scan ended by exhaustion and not with an error, the sub-directory is in the
\* directory-permission error set, and no listed sibling entry and no
\* directory of the scan is left unscanned.
C9_UnlistableDirOnlyLosesItsSubtree ==
    \A d \in dqs.denied :
        Ended(dqs) =>
            /\ dqs.pc = "done"
            /\ d \in query_scan.dir_permission_err_files
            /\ Unreached(dqs) = {}
            /\ dqs.scan_dirs = <<>>

\* C10: scan_files counts a listed symlink in skipped_links and goes on: when
\* the scan sequence is exhausted, a listed symlink was counted and no path of
\* the list is left unscanned.
C10_SymlinkDoesNotStopScanFiles ==
    dqs.pc = "done" =>
        /\ dqs.files_p = <<>>
        /\ (\E k \in DOMAIN dqs.items : dqs.items[k] = Link) =>
               query_scan.skipped_links >= 1

-----------------------------------------------------------------------------
(* Claims about scan_file                                                  *)

\* the path the next step of generator g hands to scan_file; <<>> if the next
\* step hands it none
NextScanned(g) ==
    IF g.pc # "run" THEN <<>>
    ELSE IF g.stack # <<>>
    THEN LET entry == Head(g.stack[Len(g.stack)].entries)
         IN  IF entry.is_dir /\ ~options.skip_sub_dir THEN <<>> ELSE entry.path
    ELSE IF g.scan_dirs # <<>> \/ g.files_p = <<>> THEN <<>>
    ELSE IF Head(g.files_p) \in exists /\ fs[Head(g.files_p)].kind = "link" THEN <<>>
    ELSE Head(g.files_p)

\* no filter of the options turns file_p away before it is stat'ed
ReachesStat(file_p) ==
    /\ ~(options.skip_hidden /\ IsHidden(file_p))
    /\ options.incl_dir_regexes \in {NoRegexes, <<>>}
          \/ MatchRegex(options.incl_dir_regexes, {Front(file_p)})
    /\ options.excl_dir_regexes = NoRegexes
          \/ ~MatchRegex(options.excl_dir_regexes, {Front(file_p)})
    /\ options.incl_file_regexes = NoRegexes
          \/ MatchRegex(options.incl_file_regexes, {<<Last(file_p)>>})
    /\ options.excl_file_regexes = NoRegexes
          \/ ~MatchRegex(options.excl_file_regexes, {<<Last(file_p)>>})

\* this step is the query scan handing file_p to scan_file
QueryScans(file_p) ==
    /\ NextScanned(dqs) = file_p
    /\ query_scan'.checked_count = query_scan.checked_count + 1

\* C11: when scan_file stats an entry that vanished after it was listed, the
\* path is added to file_not_found_err_files, error_count grows by one, no
\* FileRecord is inserted, and the scan goes on (it does not end in an error).
C11_VanishedEntryIsNotFound ==
    [][\A file_p \in TreePaths :
          (QueryScans(file_p) /\ file_p \notin exists /\ ReachesStat(file_p)) =>
              /\ query_scan'.file_not_found_err_files =
                     query_scan.file_not_found_err_files \cup {file_p}
              /\ query_scan'.error_count = query_scan.error_count + 1
              /\ query_scan'.files = query_scan.files
              /\ query_scan'.initial_count = query_scan.initial_count
              /\ dqs'.pc \in {"run", "done"}]_vars

\* a listed entry vanished, was recorded as not found, and a later entry was
\* scanned into the result
C11_Witness ==
    /\ dqs.pc = "done"
    /\ \E file_p \in query_scan.file_not_found_err_files :
          /\ file_p \in TreePaths \ exists
          /\ \E k \in DOMAIN query_scan.files :
                /\ query_scan.files[k].path # file_p
                /\ query_scan.checked_count > 1
    /\ query_scan.error_count = 1

\* the read bit that decides for the tester (uid, gid) on inode i
DecidingBit(i, uid, gid) ==
    IF uid = i.file_uid THEN S_IRUSR
    ELSE IF gid = i.file_gid THEN S_IRGRP
    ELSE S_IROTH

\* C12: read permission is the user-read bit alone if the test uid is the
\* file's uid, else the group-read bit alone if the test gid is the file's
\* gid, else the other-read bit; a file for which it is false is put in
\* file_permission_err_files and gets no FileRecord, a file for which it is
\* true is not put there.
C12_ReadPermissionRule ==
    [][\A file_p \in TreePaths :
          (/\ QueryScans(file_p)
           /\ file_p \in exists
           /\ ReachesStat(file_p)
           /\ fs[file_p].kind # "link") =>
              IF HasBit(DecidingBit(fs[file_p], dqs.uid, dqs.gid), fs[file_p].st_mode)
              THEN /\ query_scan'.file_permission_err_files =
                          query_scan.file_permission_err_files
                   /\ query_scan'.error_count = query_scan.error_count
              ELSE /\ query_scan'.file_permission_err_files =
                          query_scan.file_permission_err_files \cup {file_p}
                   /\ query_scan'.error_count = query_scan.error_count + 1
                   /\ query_scan'.files = query_scan.files]_vars

\* a file owned by the tester without the user-read bit but with the group
\* and other read bits was refused and has no FileRecord
C12_Witness ==
    \E file_p \in query_scan.file_permission_err_files :
        /\ fs[file_p].file_uid = dqs.uid
        /\ fs[file_p].file_gid = dqs.gid
        /\ ~HasBit(S_IRUSR, fs[file_p].st_mode)
        /\ HasBit(S_IRGRP, fs[file_p].st_mode)
        /\ HasBit(S_IROTH, fs[file_p].st_mode)
        /\ file_p \notin Paths(query_scan.files)

-----------------------------------------------------------------------------
(* Further claims about do_compare                                         *)

\* C13: for every query file of the iteration, the first and every later one,
\* the candidate lookup is constrained by exactly the attributes whose flags
\* were passed as True (with the file's own values) and by no other: the set
\* of constrained attributes is the same for all query files of the run.
C13_SameConstraintsForEveryFile ==
    \A n \in 1..Len(hist.cands) :
        /\ hist.cands[n].attrs = dc.passed
        /\ hist.cands[n].possible_matches =
               GetIntersection(QuerySize(n), dc.passed, query_scan.files[n].metadata)

\* C14: after do_compare was run to exhaustion twice with the same flags over
\* the same scans and an unchanged disk, the MatchSet (its keys and the list
\* of canonical paths of each key) and the Unique set are those the first run
\* left.
C14_SecondRunSameResult ==
    (Exhausted /\ hist.first # <<>>) =>
        /\ session.actual_matches = hist.first[1].actual_matches
        /\ session.unique = hist.first[1].unique

\* query file n and the canonical file at index k are two files on disk, at
\* different paths, with the same bytes
Identical(n, k) ==
    LET q == QueryPath(n)
        c == canonical_scan.files[k].path
    IN  /\ q # c
        /\ q \in exists /\ c \in exists
        /\ fs[q].content = fs[c].content

Recorded(n, k) ==
    /\ QueryPath(n) \in MatchKeys
    /\ canonical_scan.files[k].path \in Range(session.actual_matches[QueryPath(n)])

C16_SkipChecksumNeedsName ==
    /\ (dc.pc # "init" /\ dc.skip_checksum /\ "name" \notin dc.passed) =>
           dc.pc = "AssertionError"
    /\ dc.pc = "AssertionError" =>
           /\ session = SessionInit
           /\ canonical_scan.checksum = ScanInit.checksum
           /\ hist.yields = <<>> /\ hist.cands = <<>> /\ hist.calls = <<>>
           /\ dc.i = 0

\* the call failed although other flags were passed and there were query
\* files with candidates to examine
C16_Witness ==
    /\ dc.pc = "AssertionError"
    /\ dc.passed # {}
    /\ \E n \in 1..Len(query_scan.files) :
          GetIntersection(QuerySize(n), {}, query_scan.files[n].metadata) # <<>>

\* C17: in a run with skip_checksum every candidate passed whose path is not
\* the query path is in the query file's MatchSet list, no comparator call is
\* made, and the checksum cache, pre_computed_checksum_count,
\* source_error_files and possible_match_error_files stay as they were.
C17_SkipChecksumMatchesOnMetadata ==
    (dc.skip_checksum /\ dc.pc \in {"yield", "loop", "done"}) =>
        /\ \A n \in 1..Len(query_scan.files) :
              \A c \in Passed(n) \ {QueryPath(n)} :
                  /\ QueryPath(n) \in MatchKeys
                  /\ c \in Range(session.actual_matches[QueryPath(n)])
        /\ hist.calls = <<>>
        /\ canonical_scan.checksum = ScanInit.checksum
        /\ session.pre_computed_checksum_count = SessionInit.pre_computed_checksum_count
        /\ session.source_error_files = SessionInit.source_error_files
        /\ session.possible_match_error_files = SessionInit.possible_match_error_files

\* a run with skip_checksum recorded a pair whose bytes differ, and a pair one
\* side of which had vanished
C17_Witness ==
    /\ Exhausted /\ dc.skip_checksum
    /\ \E q \in MatchKeys :
          \E c \in Range(session.actual_matches[q]) :
              fs[q].content # fs[c].content
    /\ \E q \in MatchKeys :
          \E c \in Range(session.actual_matches[q]) :
              q \notin exists \/ c \notin exists

\* the query paths that are a key of the MatchSet or in the Unique set, the
\* self-skip set or the source-error set
ClassifiedQueryPaths ==
    MatchKeys \cup session.unique \cup session.skipped_self
        \cup session.source_error_files

\* C18: whenever do_compare has handed the caller the running count n, the
\* n-th query file and all earlier ones are classified, so that a caller who
\* stops pulling there leaves exactly n query files classified.
C18_CountMeansClassified ==
    dc.pc = "yield" =>
        /\ \A n \in 1..dc.count : QueryPath(n) \in ClassifiedQueryPaths
        /\ Cardinality(ClassifiedQueryPaths) = dc.count

\* C19: do_compare yields exactly 1, 2, ..., N for the N FileRecords of the
\* query ScanResult, one value per query file in insertion order, whatever
\* report_frequency is and however many candidates a file has.
C19_YieldsOneToN ==
    /\ hist.yields = [n \in 1..dc.count |-> n]
    /\ dc.count = dc.i
    /\ dc.count <= Len(query_scan.files)
    /\ \A n \in 1..Len(hist.cands) : hist.cands[n].file_p = QueryPath(n)
    /\ Len(hist.cands) \in {dc.count - 1, dc.count}
    /\ Exhausted => dc.count = Len(query_scan.files)

\* a run over three query files, one without candidates and one with two,
\* under a report_frequency that made the scan report less often
C19_Witness ==
    /\ Exhausted
    /\ options.report_frequency > 1
    /\ hist.yields = <<1, 2, 3>>
    /\ dqs.yields # hist.yields
    /\ \E n \in 1..Len(hist.cands) : Len(hist.cands[n].possible_matches) = 0
    /\ \E n \in 1..Len(hist.cands) : Len(hist.cands[n].possible_matches) >= 2

-----------------------------------------------------------------------------
(* Claims about the scan checkpoints                                       *)

\* C20: a scan emits a checkpoint exactly when checked_count has just reached
\* a positive multiple of report_frequency: the values emitted so far are the
\* multiples of report_frequency up to checked_count, each once and in order,
\* also when sub-directories are skipped by the directory filters.
C20_CheckpointEveryFrequency ==
    dqs.yields =
        [k \in 1..(query_scan.checked_count \div options.report_frequency) |->
            k * options.report_frequency]

-----------------------------------------------------------------------------
(* Claims about the filters of a scan                                      *)

\* sub-directory d fails the directory include filter or hits the directory
\* exclude filter
DirFilteredOut(d) ==
    \/ /\ options.incl_dir_regexes \notin {NoRegexes, <<>>}
       /\ ~MatchRegex(options.incl_dir_regexes, {d})
    \/ /\ options.excl_dir_regexes # NoRegexes
       /\ MatchRegex(options.excl_dir_regexes, {d})

Below(d, p) == IsPrefix(d, p) /\ p # d

\* every path the scanner has recorded, as a FileRecord or in an error set
RecordedPaths(sc) ==
    Paths(sc.files) \cup sc.file_not_found_err_files \cup sc.file_permission_err_files
        \cup sc.file_generic_err_files \cup sc.dir_permission_err_files
        \cup sc.dir_generic_err_files

\* C21: a sub-directory of a scanned root that fails the directory include
\* filter or hits the directory exclude filter is never entered: it is never
\* listed, so no entry below it is handed to scan_file (stat-ed, counted) or
\* recorded, also when a directory below it would pass the filters.
C21_FilteredDirNeverEntered ==
    \A d \in {SubDir, SubSubDir} :
        (/\ DirFilteredOut(d)
         /\ \A k \in DOMAIN dqs.items : ~IsPrefix(d, dqs.items[k])) =>
            /\ \A k \in DOMAIN dqs.stack : ~IsPrefix(d, dqs.stack[k].scan_dir)
            /\ \A e \in Unreached(dqs) : ~Below(d, e.path)
            /\ \A p \in RecordedPaths(query_scan) : ~Below(d, p)

\* /r was scanned to the end with sub-directories: /r/s failed the include
\* filter, which /r/s/t below it would pass, and was counted
C21_Witness ==
    /\ dqs.pc = "done"
    /\ dqs.items = <<RootDir>>
    /\ ~options.skip_sub_dir
    /\ DirFilteredOut(SubDir) /\ ~DirFilteredOut(SubSubDir)
    /\ query_scan.skipped_include_dirs = 1
    /\ query_scan.checked_count > 0

\* the counters of the skip and error reasons other than the symlink
OtherReasons ==
    {"skipped_hidden", "skipped_include_files", "skipped_exclude_files",
     "skipped_zero_len", "skipped_include_dirs", "skipped_exclude_dirs",
     "error_count"}

\* C22: the symlink check comes first for a scanned entry: when scan_file is
\* handed a symlink, skipped_links grows by one, no other skip or error
\* counter changes (also when the symlink is hidden or hit by a regex filter),
\* and no FileRecord is inserted.
C22_SymlinkCheckedFirst ==
    [][\A file_p \in TreePaths :
          (/\ QueryScans(file_p)
           /\ file_p \in exists
           /\ fs[file_p].kind = "link") =>
              /\ query_scan'.skipped_links = query_scan.skipped_links + 1
              /\ \A counter \in OtherReasons :
                    query_scan'[counter] = query_scan[counter]
              /\ query_scan'.files = query_scan.files]_vars

\* the filter that turns file_p away, taking the filters in the order
\* include-dir, exclude-dir, include-file, exclude-file: "include" for a miss
\* of an include filter, "exclude" for a hit of an exclude filter, "none" if
\* every filter lets file_p pass
FilterReason(file_p) ==
    IF /\ options.incl_dir_regexes \notin {NoRegexes, <<>>}
       /\ ~MatchRegex(options.incl_dir_regexes, {Front(file_p)})
    THEN "include"
    ELSE IF /\ options.excl_dir_regexes # NoRegexes
            /\ MatchRegex(options.excl_dir_regexes, {Front(file_p)})
    THEN "exclude"
    ELSE IF /\ options.incl_file_regexes # NoRegexes
            /\ ~MatchRegex(options.incl_file_regexes, {<<Last(file_p)>>})
    THEN "include"
    ELSE IF /\ options.excl_file_regexes # NoRegexes
            /\ MatchRegex(options.excl_file_regexes, {<<Last(file_p)>>})
    THEN "exclude"
    ELSE "none"

\* the include-filter misses and the exclude-filter hits a scanner has counted
IncludeMisses(sc) == sc.skipped_include_files + sc.skipped_include_dirs
ExcludeHits(sc) == sc.skipped_exclude_files + sc.skipped_exclude_dirs

\* C23: an entry that scan_file rejects by a regex filter increments exactly
\* one counter, the one of its own reason, the filters taken in the order
\* include-dir, exclude-dir, include-file, exclude-file: a miss of an include
\* filter is counted as an include-filter miss, a hit of an exclude filter
\* (also of the exclude-dir filter) as an exclude-filter hit, and no other
\* skip or error counter changes.
C23_RejectionCountsItsReason ==
    [][\A file_p \in TreePaths :
          (/\ QueryScans(file_p)
           /\ ~(options.skip_hidden /\ IsHidden(file_p))
           /\ FilterReason(file_p) # "none") =>
              /\ IncludeMisses(query_scan') = IncludeMisses(query_scan)
                    + (IF FilterReason(file_p) = "include" THEN 1 ELSE 0)
              /\ ExcludeHits(query_scan') = ExcludeHits(query_scan)
                    + (IF FilterReason(file_p) = "exclude" THEN 1 ELSE 0)
              /\ \A counter \in {"skipped_hidden", "skipped_links",
                                  "skipped_zero_len", "error_count",
                                  "initial_count"} :
                    query_scan'[counter] = query_scan[counter]]_vars

\* p is a query item or a direct child of a query item
RootOrChild(p) ==
    \E k \in DOMAIN dqs.items : p = dqs.items[k] \/ Front(p) = dqs.items[k]

\* C30: with skip_sub_dir a directory scan considers only the direct children
\* of the given root: only the root is ever listed (no sub-directory is
\* descended into), only its direct children are handed to scan_file, and no
\* FileRecord and no error entry is made for a path below a sub-directory.
C30_SkipSubDirStaysAtTop ==
    options.skip_sub_dir =>
        /\ \A k \in DOMAIN dqs.stack :
              /\ k = 1
              /\ \E n \in DOMAIN dqs.items : dqs.stack[k].scan_dir = dqs.items[n]
        /\ \A e \in Unreached(dqs) : RootOrChild(e.path)
        /\ \A p \in RecordedPaths(query_scan) : RootOrChild(p)
        /\ \A d \in {SubDir, SubSubDir}, p \in RecordedPaths(query_scan) :
              (\E k \in DOMAIN dqs.items : Below(dqs.items[k], d)) => ~Below(d, p)
        /\ (dqs.pc = "done" /\ dqs.items = <<RootDir>>) =>
              query_scan.checked_count = Len(Children(RootDir))

\* the scan of /r with skip_sub_dir is complete: its four entries were
\* checked and /r/a.x was recorded
C30_Witness ==
    /\ options.skip_sub_dir
    /\ dqs.pc = "done"
    /\ dqs.items = <<RootDir>>
    /\ query_scan.checked_count = Len(Children(RootDir))
    /\ FileA \in Paths(query_scan.files)

-----------------------------------------------------------------------------
(* Claims about the session                                                *)

\* C24: when the canonical directory does not exist or is not a directory,
\* the failure is raised before any scanning work: in the state in which the
\* canonical scan has raised its IOError no query entry has been scanned and
\* no counter or record of either ScanResult has changed.
C24_BadRootFailsBeforeScanning ==
    dcs.pc = "IOError" =>
        /\ query_scan = ScanInit
        /\ canonical_scan = ScanInit

\* C25: in every state of a single do_compare run every key of the MatchSet
\* maps to a non-empty list of canonical paths, and no query path is at the
\* same time a key of the MatchSet and a member of the Unique set.
C25_MatchKeysNonEmptyAndNotUnique ==
    /\ \A file_p \in MatchKeys :
          /\ Len(session.actual_matches[file_p]) > 0
          /\ \A k \in DOMAIN session.actual_matches[file_p] :
                session.actual_matches[file_p][k] \in Paths(canonical_scan.files)
    /\ MatchKeys \cap session.unique = {}

\* a finished run that recorded a duplicate for one query file and found
\* every other query file unique
C25_Witness ==
    /\ Exhausted
    /\ MatchKeys # {}
    /\ session.unique # {}
    /\ MatchKeys \cup session.unique = QueryPaths

\* C26: across every step of a session the Unique set, the self-skip set,
\* source_error_files, possible_match_error_files and the keys of the MatchSet
\* only grow, each MatchSet list only grows at its end (no recorded path is
\* removed or replaced), and pre_computed_checksum_count never decreases.
C26_ResultsOnlyGrow ==
    [][/\ session.unique \subseteq session'.unique
       /\ session.skipped_self \subseteq session'.skipped_self
       /\ session.source_error_files \subseteq session'.source_error_files
       /\ session.possible_match_error_files
             \subseteq session'.possible_match_error_files
       /\ \A file_p \in MatchKeys :
             /\ file_p \in DOMAIN session'.actual_matches
             /\ IsPrefix(session.actual_matches[file_p],
                         session'.actual_matches[file_p])
       /\ session.pre_computed_checksum_count
             <= session'.pre_computed_checksum_count]_vars

\* a second run has ended in which a MatchSet list grew to two paths, with a
\* self-skip, a cached checksum reused and a vanished file recorded
C26_Witness ==
    /\ Exhausted
    /\ hist.first # <<>>
    /\ \E file_p \in MatchKeys : Len(session.actual_matches[file_p]) >= 2
    /\ session.skipped_self # {}
    /\ session.pre_computed_checksum_count > 0
    /\ session.source_error_files \cup session.possible_match_error_files # {}

\* the canonical paths whose cache entry this step wrote or changed
CacheWrites ==
    {p \in DOMAIN canonical_scan'.checksum :
        \/ p \notin DOMAIN canonical_scan.checksum
        \/ canonical_scan'.checksum[p] # canonical_scan.checksum[p]}

\* C27: a step of do_compare leaves the query ScanResult and the canonical
\* ScanResult (records, counters, error sets) unchanged but for the checksum
\* cache, drops no cache entry, and writes a cache entry only for the
\* candidate that the comparator has just confirmed identical to the query
\* file, with the checksum the comparator returned.
C27_CompareWritesOnlyTheCache ==
    [][dc' # dc =>
          /\ query_scan' = query_scan
          /\ [canonical_scan' EXCEPT !.checksum = canonical_scan.checksum]
                = canonical_scan
          /\ DOMAIN canonical_scan.checksum \subseteq DOMAIN canonical_scan'.checksum
          /\ \A p \in CacheWrites :
                /\ Len(hist'.calls) = Len(hist.calls) + 1
                /\ LET call == hist'.calls[Len(hist'.calls)]
                   IN  /\ call.file_b_path = p
                       /\ Confirmed(call)
                       /\ canonical_scan'.checksum[p] = call.checksum
                       /\ fs[call.file_a_path].content = fs[p].content]_vars

\* do_compare has ended with a checksum cached for one canonical file and
\* none for another that the comparator found to differ
C27_Witness ==
    /\ Exhausted
    /\ DOMAIN canonical_scan.checksum # {}
    /\ \E call \in Calls :
          /\ ~call.raised
          /\ call.checksum = NoMatch
          /\ call.file_b_path \notin DOMAIN canonical_scan.checksum
    /\ query_scan.checked_count > 0
    /\ canonical_scan.checked_count > 0

\* the regular files of size 0 on disk
ZeroLenFiles ==
    {p \in TreePaths : fs[p].kind = "file" /\ ByteLen(fs[p].content) = 0}

\* the paths the query scan is to cover: the query items and what lies below
InQueryScope(p) == \E k \in DOMAIN dqs.items : IsPrefix(dqs.items[k], p)

-----------------------------------------------------------------------------
(* Claims about the comparator                                             *)

\* C29: for files A and B on disk the comparator given B's correct cached
\* checksum and the single-pass comparison given none have the same outcome:
\* neither raises, both return the checksum of B exactly when A and B are
\* byte-identical and the false result when the lengths or the contents
\* differ; every call do_compare made returned what the single pass returns.
C29_CachedEqualsSinglePass ==
    /\ \A file_a \in Files \cap exists, file_b \in Files \cap exists :
          LET cached == Compare(file_a, file_b, Digest(fs[file_b].content))
              single == Compare(file_a, file_b, None)
          IN  /\ cached = single
              /\ ~single.raised
              /\ single.checksum # NoMatch <=>
                     fs[file_a].content = fs[file_b].content
              /\ single.checksum # NoMatch =>
                     single.checksum = Digest(fs[file_b].content)
    /\ \A call \in Calls :
          (call.a_on_disk /\ call.b_on_disk) =>
              /\ ~call.raised
              /\ call.file_b_checksum # None =>
                     call.file_b_checksum = Digest(fs[call.file_b_path].content)
              /\ call.checksum =
                     IF fs[call.file_a_path].content = fs[call.file_b_path].content
                     THEN Digest(fs[call.file_b_path].content) ELSE NoMatch

\* the comparator was called with a cached checksum and confirmed one query
\* file, and called with a cached checksum and refused another of the same
\* length
C29_Witness ==
    \E m, n \in 1..Len(hist.calls) :
        /\ hist.calls[m].file_b_checksum # None
        /\ Confirmed(hist.calls[m])
        /\ hist.calls[n].file_b_checksum # None
        /\ ~hist.calls[n].raised
        /\ hist.calls[n].checksum = NoMatch
        /\ ByteLen(fs[hist.calls[n].file_a_path].content)
              = ByteLen(fs[hist.calls[n].file_b_path].content)

-----------------------------------------------------------------------------
(* Claims about the counters and records of a scan                         *)

\* no include regex is configured: both include lists are None or empty
NoIncludeRegex ==
    /\ options.incl_dir_regexes \in {NoRegexes, <<>>}
    /\ options.incl_file_regexes \in {NoRegexes, <<>>}

\* the directory of file_p hits the directory exclude filter
ExcludeDirHit(file_p) ==
    /\ options.excl_dir_regexes # NoRegexes
    /\ MatchRegex(options.excl_dir_regexes, {Front(file_p)})

\* C31: with no include regex configured (each include list None or empty)
\* no entry handed to scan_file is skipped as an include-filter miss: the
\* include counters stay as they are (an entry whose directory hits the
\* exclude filter is left aside, its count being another matter).
C31_EmptyIncludeListFiltersNothing ==
    [][\A file_p \in TreePaths \cup {Missing} :
          (/\ QueryScans(file_p)
           /\ NoIncludeRegex
           /\ ~ExcludeDirHit(file_p)) =>
              IncludeMisses(query_scan') = IncludeMisses(query_scan)]_vars

\* the entries a scanner has counted as skipped, errored or accepted
Outcomes(sc) ==
    sc.skipped_hidden + sc.skipped_include_files + sc.skipped_exclude_files
        + sc.skipped_links + sc.skipped_zero_len + sc.error_count
        + sc.initial_count

\* C32: after any sequence of scan_file calls made through scan_directory,
\* scan_directories and scan_files, checked_count equals the sum of
\* skipped_hidden, skipped_include_files, skipped_exclude_files,
\* skipped_links, skipped_zero_len, error_count and initial_count: every
\* entry counted as skipped, errored or accepted is counted as checked once.
C32_CheckedCountIsSumOfOutcomes ==
    query_scan.checked_count = Outcomes(query_scan)

\* C33: after any sequence of scans on one scanner (several query
\* directories and files, possibly overlapping), initial_count equals the
\* number of FileRecords of the ScanResult, whose keys are unique paths.
C33_InitialCountIsRecordCount ==
    /\ query_scan.initial_count = Len(query_scan.files)
    /\ Cardinality(Paths(query_scan.files)) = Len(query_scan.files)

\* C34: no FileRecord of a ScanResult describes a directory: in every state
\* of a directory scan, with skip_sub_dir set or not, every record has its
\* is-directory flag false and the path of a regular file.
C34_NoDirectoryRecord ==
    \A k \in DOMAIN query_scan.files :
        /\ ~query_scan.files[k].metadata.isdir
        /\ fs[query_scan.files[k].path].kind = "file"

-----------------------------------------------------------------------------
(* Claims about the checksum cache                                         *)

CacheKeys == DOMAIN canonical_scan.checksum

\* C35: in every state of do_compare every key of the checksum cache is a
\* canonical path that appears in at least one MatchSet list, the cache is
\* empty until the comparator has confirmed a first match, and
\* pre_computed_checksum_count is 0 as long as the cache is empty.
C35_CacheKeysAreMatchedPaths ==
    /\ \A p \in CacheKeys :
          /\ p \in Paths(canonical_scan.files)
          /\ \E file_p \in MatchKeys : p \in Range(session.actual_matches[file_p])
    /\ (hist.first = <<>> /\ \A call \in Calls : ~Confirmed(call)) => CacheKeys = {}
    /\ CacheKeys = {} => session.pre_computed_checksum_count = 0

\* do_compare has ended with a checksum cached and reused for a later call
C35_Witness ==
    /\ Exhausted
    /\ CacheKeys # {}
    /\ session.pre_computed_checksum_count > 0
    /\ \E call \in Calls : ~Confirmed(call) /\ call.file_b_checksum # None

-----------------------------------------------------------------------------
(* The legacy directory scanner: ScanDir.scan (scandir.py), as QueryDir     *)

\* ScanDir.__init__ and QueryDir.__init__: the sets, the counters, the files
ScanDirInit ==
    [ files |-> <<>>,
      dir_permission_err_files |-> {}, dir_generic_err_files |-> {},
      file_permission_err_files |-> {}, file_generic_err_files |-> {},
      file_not_found_err_files |-> {},
      initial_count |-> 0, checked_count |-> 0, skipped_links |-> 0,
      error_count |-> 0, skipped_zero_len |-> 0, skipped_hidden |-> 0,
      skipped_exclude |-> 0, skipped_include |-> 0 ]

\* re.match(regex, item) for the literal regexes of the fixture: the literal
\* stands at the start of the item
Match(regex, item) ==
    \/ item = regex
    \/ regex = "a" /\ item = "a.x"

\* ScanDir.match_regex
ScanDirMatchRegex(regexes, items) ==
    \E r \in 1..Len(regexes) : \E item \in items : Match(regexes[r], item)

\* ScanDir.get_metadata
ScanDirGetMetadata(file_path, scan_dir) ==
    [ size |-> ByteLen(fs[file_path].content),
      name |-> Last(file_path),
      file_type |-> SplitExt(Last(file_path)),
      parent |-> IF Len(file_path) >= 2 THEN file_path[Len(file_path) - 1] ELSE "",
      rel_path |-> RelPath(file_path, scan_dir),
      ctime |-> fs[file_path].ctime,
      mtime |-> fs[file_path].mtime ]

\* os.access(file_p, os.R_OK) for the user uid:gid
Access(file_p, uid, gid) ==
    /\ file_p \in exists
    /\ HasReadPermissions(fs[file_p].st_mode, fs[file_p].file_uid,
                          fs[file_p].file_gid, uid, gid)

\* ScanDir.os_walk_error for a directory that denies listing (EACCES)
OsWalkError(sc, filename) ==
    [Bump(sc, "error_count") EXCEPT !.dir_permission_err_files = @ \cup {filename}]

\* the generator of ScanDir.scan before it is called: the directories os.walk
\* has still to visit, the triple (root, sub_folders, files_n) of the
\* directory it is at (files_n holds the files not yet looped over, both lists
\* as full paths), the values yielded so far
WalkInit ==
    [ pc |-> "init", items |-> <<>>, walk |-> <<>>, root |-> <<>>,
      sub_folders |-> <<>>, files_n |-> <<>>, uid |-> 0, gid |-> 0,
      yields |-> <<>> ]

\* the paths of the entries of a listing that are directories (or are not)
EntryPaths(entries, is_dir) ==
    LET hits == SelectSeq(entries, LAMBDA e : e.is_dir = is_dir)
    IN  [k \in 1..Len(hits) |-> hits[k].path]

\* os.walk, top down: the loop over files_n is over; it goes on to the first
\* directory left in sub_folders, then to those still waiting, lists it and
\* yields its triple. A directory that denies listing goes to onerror and
\* has no triple. With no directory left the walk is over.
WalkOn(sc, g) ==
    LET pending == g.sub_folders \o g.walk
    IN  IF pending = <<>>
        THEN [sc |-> sc, g |-> [g EXCEPT !.pc = "done", !.sub_folders = <<>>]]
        ELSE LET top == Head(pending)
                 g1 == [g EXCEPT !.walk = Tail(pending), !.root = top,
                                 !.sub_folders = <<>>, !.files_n = <<>>]
             IN  IF ~fs[top].listable
                 THEN [sc |-> OsWalkError(sc, top), g |-> g1]
                 ELSE [sc |-> sc,
                       g |-> [g1 EXCEPT
                                !.sub_folders = EntryPaths(Entries(top), TRUE),
                                !.files_n = EntryPaths(Entries(top), FALSE)]]

\* ScanDir.scan, lines 266-267: 'if skip_sub_dir: sub_folders[:] = []' is the
\* last statement of the body of the loop over files_n, which every skipped
\* file leaves by 'continue'
Pruned(g, accepted) ==
    IF options.skip_sub_dir /\ accepted THEN [g EXCEPT !.sub_folders = <<>>] ELSE g

\* ScanDir.scan, lines 204-267: the body of the loop over files_n for the
\* next file of the directory the walk is at. A file that is gone from disk
\* fails os.access (line 215), so os.path.getsize (248) finds every file it
\* is asked about.
ScanDirFileStep(sc0, g) ==
    LET file_p == Head(g.files_n)
        file_n == Last(file_p)
        path_items == Range(g.root)
        sc == Bump(sc0, "checked_count")
        g1 == [g EXCEPT !.files_n = Tail(@)]
        g2 == IF sc.checked_count % options.report_frequency = 0
              THEN Yield(g1, sc.checked_count) ELSE g1
    IN  IF fs[file_p].kind = "link"
        THEN [sc |-> Bump(sc, "skipped_links"), g |-> Pruned(g1, FALSE)]
        ELSE IF ~Access(file_p, g.uid, g.gid)
        THEN [sc |-> [Bump(sc, "error_count") EXCEPT
                         !.file_permission_err_files = @ \cup {file_p}],
              g |-> Pruned(g1, FALSE)]
        ELSE IF options.skip_hidden /\ IsHidden(file_p)
        THEN [sc |-> Bump(sc, "skipped_hidden"), g |-> Pruned(g2, FALSE)]
        ELSE IF /\ options.incl_dir_regexes \notin {NoRegexes, <<>>}
                /\ ~ScanDirMatchRegex(options.incl_dir_regexes, path_items)
        THEN [sc |-> Bump(sc, "skipped_include"), g |-> Pruned(g2, FALSE)]
        ELSE IF /\ options.excl_dir_regexes # NoRegexes
                /\ ScanDirMatchRegex(options.excl_dir_regexes, path_items)
        THEN [sc |-> Bump(sc, "skipped_exclude"), g |-> Pruned(g2, FALSE)]
        ELSE IF /\ options.incl_file_regexes # NoRegexes
                /\ ~ScanDirMatchRegex(options.incl_file_regexes, {file_n})
        THEN [sc |-> Bump(sc, "skipped_include"), g |-> Pruned(g2, FALSE)]
        ELSE IF /\ options.excl_file_regexes # NoRegexes
                /\ ScanDirMatchRegex(options.excl_file_regexes, {file_n})
        THEN [sc |-> Bump(sc, "skipped_exclude"), g |-> Pruned(g2, FALSE)]
        ELSE IF options.skip_zero_len /\ ByteLen(fs[file_p].content) = 0
        THEN [sc |-> Bump(sc, "skipped_zero_len"), g |-> Pruned(g2, FALSE)]
        ELSE [sc |-> [Bump(sc, "initial_count") EXCEPT
                         !.files = AppendToScan(@, file_p,
                                      ScanDirGetMetadata(file_p, Head(g.items)))],
              g |-> Pruned(g2, TRUE)]

\* QueryDir.scan called and pulled for the first time: os.walk visits scan_dir
ScanDirScanBegin ==
    /\ dqs.pc = "init"
    /\ LET r == WalkOn(query_scan, [dqs EXCEPT !.pc = "run", !.walk = dqs.items])
       IN  /\ query_scan' = r.sc
           /\ dqs' = r.g
    /\ UNCHANGED <<fs, exists, vanished, canonical_scan, options, dcs,
                   session, dc, hist>>

\* the scan goes on: the next file of the directory the walk is at, or, the
\* files of that directory done, the next directory
ScanDirScanStep ==
    /\ dqs.pc = "run"
    /\ LET r == IF dqs.files_n # <<>>
                THEN ScanDirFileStep(query_scan, dqs)
                ELSE WalkOn(query_scan, dqs)
       IN  /\ query_scan' = r.sc
           /\ dqs' = r.g
    /\ UNCHANGED <<fs, exists, vanished, canonical_scan, options, dcs,
                   session, dc, hist>>

\* the arguments of ScanDir.scan
ScanArgs ==
    [ skip_sub_dir : BOOLEAN, skip_hidden : BOOLEAN, skip_zero_len : BOOLEAN,
      incl_dir_regexes : {NoRegexes, <<"s">>},
      excl_dir_regexes : {NoRegexes, <<"t">>},
      incl_file_regexes : {NoRegexes, <<"b">>},
      excl_file_regexes : {NoRegexes, <<"a">>},
      report_frequency : 1..MaxFreq ]

\* QueryDir(scan_dir) constructed over the tree, scan not yet called
InitLegacy ==
    /\ \E disk \in {<<{}, FALSE>>, <<{}, TRUE>>, <<{SubSubDir}, FALSE>>} :
         fs = Tree([p \in TreePaths |-> 1], disk[1], disk[2])
    /\ exists = TreePaths
    /\ vanished = 0
    /\ query_scan = ScanDirInit
    /\ canonical_scan = ScanInit
    /\ options \in ScanArgs
    /\ \E scan_dir \in {RootDir, SubDir} :
         dqs = [WalkInit EXCEPT !.items = <<scan_dir>>]
    /\ dcs = GenInit
    /\ session = SessionInit
    /\ dc = DcInit
    /\ hist = HistInit

NextLegacy ==
    \/ ScanDirScanBegin
    \/ ScanDirScanStep

SpecLegacy == InitLegacy /\ [][NextLegacy]_vars

\* C36: in the legacy scanner with skip_sub_dir only files directly in the
\* scan root are inserted into the scan: no file of a sub-directory is
\* inserted, also when the root holds no file that passes the filters.
C36_LegacySkipSubDirStaysAtTop ==
    options.skip_sub_dir =>
        \A p \in Paths(query_scan.files) : Front(p) = Head(dqs.items)

====
